---- MODULE Spec2Model ----
(***************************************************************************)
(* Model of src/main.py (Zoom recording downloader).                       *)
(*                                                                         *)
(* download_zoom_recording is modelled statement by statement with a       *)
(* program counter pc; process_batch and the single-recording branch of    *)
(* main() are the two drivers that call it.  handle_request is the         *)
(* Playwright "request" callback: it runs on the event loop whenever the   *)
(* coroutine is suspended at an await while the browser is open.           *)
(*                                                                         *)
(* A URL is a sequence of tokens; `"x" in url` is token membership and the *)
(* regular expressions of lines 174/178 match three consecutive tokens.    *)
(*                                                                         *)
(* Spec is the single-recording run of main(), SpecBatch a run of          *)
(* process_batch, SpecWait is Spec with the event loop's fairness.         *)
(* SpecClassify and SpecTimeline run the classifier (lines 147-225) and    *)
(* the timeline extraction (lines 106-144) on enumerated inputs.           *)
(***************************************************************************)
EXTENDS Integers, Sequences, FiniteSets, TLC

\* ------------------------------------------------------------------ bounds
\* most requests the observer retains in one session (single mode / batch mode)
MaxCaptured == 3
MaxBatchCaptured == 1
\* most rows of the CSV file
MaxRecs == 3
\* most tokens after the host in a URL given to the classifier
MaxUrlLen == 4
\* most share markers of a page given to the timeline extraction
MaxMarkers == 2

\* ------------------------------------------------------- program constants
\* range(30), line 101
MaxPolls == 30
\* 1024 * 1024, line 212
MiB == 1048576

\* ------------------------------------------------------------------- URLs
Host == "ssrweb.zoom.us"
Mp4 == ".mp4"
Avo == "_avo_"
As == "_as_"

ResolutionTokens == {"1280x720", "1920x1080"}

FaceUrl1 == <<Host, "/rec/", Avo, "1280x720", Mp4, "?sig=1">>
FaceUrl2 == <<Host, "/rec/", Avo, "1280x720", Mp4, "?sig=2">>
ScreenUrl == <<Host, "/rec/", As, "1920x1080", Mp4>>
FaceNoRes == <<Host, "/rec/", Avo, Mp4, "?sig=1">>
ThumbUrl == <<Host, "/rec/", "thumb", Mp4>>
OtherHostUrl == <<"us06web.zoom.us", "/rec/", As, "1920x1080", Mp4>>
PlaylistUrl == <<Host, "/rec/", As, "1920x1080", ".m3u8">>

HeaderBags == {"h1", "h2"}

\* the requests the page may issue during a session
Requests ==
    {[url |-> FaceUrl1, headers |-> h] : h \in HeaderBags}
    \cup {[url |-> u, headers |-> "h1"] :
            u \in {FaceUrl2, ScreenUrl, FaceNoRes, ThumbUrl, OtherHostUrl, PlaylistUrl}}

\* the requests a page of a batch run may issue
BatchRequests ==
    {[url |-> u, headers |-> "h1"] : u \in {FaceUrl1, ThumbUrl, OtherHostUrl}}

\* `tok in url`
Contains(url, tok) == \E j \in 1..Len(url) : url[j] = tok

\* re.search(marker + r"(\d+x\d+)\.mp4", url): positions of a match
MatchAt(url, marker) ==
    {j \in 1..Len(url) :
        /\ j + 2 <= Len(url)
        /\ url[j] = marker
        /\ url[j + 1] \in ResolutionTokens
        /\ url[j + 2] = Mp4}

Min(S) == CHOOSE x \in S : \A y \in S : x <= y

\* match.group(1) if match else "unknown"
Resolution(url, marker) ==
    IF MatchAt(url, marker) = {} THEN "unknown"
    ELSE url[Min(MatchAt(url, marker)) + 1]

\* variant: the screen marker is looked for first
SuffixScreenFirst(url) ==
    IF Contains(url, As) THEN <<"_screen_", Resolution(url, As)>>
    ELSE IF Contains(url, Avo) THEN <<"_face_", Resolution(url, Avo)>>
    ELSE <<"_unknown">>
\* lines 173-182
Suffix(url) ==
    IF Contains(url, Avo) THEN <<"_face_", Resolution(url, Avo)>>
    ELSE IF Contains(url, As) THEN <<"_screen_", Resolution(url, As)>>
    ELSE <<"_unknown">>

\* line 184: f"{output_dir}/{base_filename}{suffix}.mp4"
Filename(base_filename, url) == <<base_filename>> \o Suffix(url) \o <<Mp4>>

\* line 139
TimelineFile(base_filename) == <<base_filename, "_timeline.json">>

\* variant: the host alone is tested
RetainedHostOnly(url) == Contains(url, Host)
\* line 58: the observer's filter
Retained(url) == Contains(url, Host) /\ Contains(url, Mp4)

\* variants: no filter at all; a filter on the extension alone; the observer's
\* filter once more
QualifiesAll(url) == TRUE
QualifiesMp4(url) == Contains(url, Mp4)
QualifiesRetained(url) == Retained(url)
\* line 151: the deduplicator's filter
Qualifies(url) == Contains(url, Avo) \/ Contains(url, As)

\* ------------------------------------------------- ordered dict (Python)
Keys(d) == {d[j].url : j \in 1..Len(d)}
KeyIndex(d, url) == CHOOSE j \in 1..Len(d) : d[j].url = url

\* variant: setdefault, the first request of a key is kept
DictSetKeepFirst(d, url, req) ==
    IF url \in Keys(d) THEN d ELSE Append(d, [url |-> url, req |-> req])
\* d[url] = req : an existing key keeps its position, a new key goes last
DictSet(d, url, req) ==
    IF url \in Keys(d)
    THEN [d EXCEPT ![KeyIndex(d, url)] = [url |-> url, req |-> req]]
    ELSE Append(d, [url |-> url, req |-> req])

\* lines 147-152
RECURSIVE Dedup(_, _)
Dedup(reqs, d) ==
    IF reqs = <<>> THEN d
    ELSE Dedup(Tail(reqs),
               IF Qualifies(Head(reqs).url)
               THEN DictSet(d, Head(reqs).url, Head(reqs))
               ELSE d)

\* ------------------------------------------------------ sharing timeline
\* aria-label of a span.vjs-share-marker-button
\* text, sep, h, " hours ", m, " minutes ", s, " seconds": the numbers are the
\* values of the digit runs
LongUnits == <<" hours ", " minutes ", " seconds">>
ShortUnits == <<"h ", "m ", "s">>
StartedLabel ==
    [text |-> "Sharing Started", sep |-> ",", h |-> 0, m |-> 4, s |-> 13,
     units |-> LongUnits]
StoppedLabel ==
    [text |-> "Sharing Stopped", sep |-> ",", h |-> 1, m |-> 2, s |-> 3,
     units |-> LongUnits]
MalformedLabel ==
    [text |-> "Sharing Started", sep |-> ",", h |-> 0, m |-> 0, s |-> 0,
     units |-> ShortUnits]
ChapterLabel ==
    [text |-> "Chapter", sep |-> ",", h |-> 0, m |-> 0, s |-> 0, units |-> LongUnits]

\* the marker elements of a page, in document order
Doms ==
    {<<>>, <<ChapterLabel>>, <<StartedLabel, MalformedLabel, StoppedLabel>>}

\* String(n).padStart(2, '0'), as a digit sequence
RECURSIVE Digits(_)
Digits(n) == IF n < 10 THEN <<n>> ELSE Digits(n \div 10) \o <<n % 10>>
\* variant: String(n), no padding
NoPad(n) == Digits(n)
PadStart2(n) == IF n < 10 THEN <<0, n>> ELSE Digits(n)

\* lines 114-131: one marker
ParseLabel(label) ==
    IF /\ label.text \in {"Sharing Started", "Sharing Stopped"}
       /\ label.sep = ","
       /\ label.units = LongUnits
    THEN <<[action |-> label.text,
            time |-> <<PadStart2(label.h), PadStart2(label.m), PadStart2(label.s)>>,
            seconds |-> label.h * 3600 + label.m * 60 + label.s]>>
    ELSE <<>>

\* lines 109-135
RECURSIVE ParseTimeline(_)
ParseTimeline(spans) ==
    IF spans = <<>> THEN <<>>
    ELSE ParseLabel(Head(spans)) \o ParseTimeline(Tail(spans))

\* ------------------------------------------------------------ validation
\* the outcomes of one curl run: exit status and what it left at the path
ReturnCodes == {0, 22}
FileSizes == {104857, 104858}
CurlOutcomes ==
    {[returncode |-> rc, wrote |-> TRUE, size |-> s] : rc \in ReturnCodes, s \in FileSizes}
    \cup {[returncode |-> rc, wrote |-> FALSE, size |-> 0] : rc \in ReturnCodes}

\* variant: >= on whole bytes
BigEnoughInclusive(st_size) == st_size >= MiB \div 10
\* lines 212-213: st_size / (1024 * 1024) > 0.1
BigEnough(st_size) == st_size * 10 > MiB

\* variant: the exit status is not looked at
ValidatedIgnoringStatus(returncode, exists, st_size) ==
    exists /\ BigEnough(st_size)
\* lines 208-214
Validated(returncode, exists, st_size) ==
    returncode = 0 /\ exists /\ BigEnough(st_size)

\* variant: all_files = files
Replace(xs, ys) == ys
\* list.extend, line 247
Extend(xs, ys) == xs \o ys

\* context.cookies() joined by "; ", lines 162-163
CookieStrings == {"sid=1; tok=2"}

\* base_filename column / argv[1]
BaseNames == {"m1", "m2"}

RECURSIVE SeqsUpTo(_, _)
SeqsUpTo(S, n) ==
    IF n = 0 THEN {<<>>}
    ELSE SeqsUpTo(S, n - 1) \cup
         {Append(q, x) : q \in {r \in SeqsUpTo(S, n - 1) : Len(r) = n - 1}, x \in S}

\* the URLs the classifier is checked on: the host, then up to MaxUrlLen tokens;
\* only a URL the observer retains can reach lines 147-184
UrlTokens == {Avo, As, "1280x720", "1920x1080", Mp4}
ClassifyUrls ==
    {u \in {<<Host>> \o b : b \in SeqsUpTo(UrlTokens, MaxUrlLen)} : Retained(u)}

\* the labels the timeline extraction is checked on
TimelineLabels ==
    {[text |-> t, sep |-> p, h |-> h, m |-> m, s |-> s, units |-> LongUnits] :
        t \in {"Sharing Started", "Sharing Stopped", "Chapter"}, p \in {",", ";"},
        h \in {0, 12}, m \in {4, 59}, s \in {3, 13}}
    \cup {MalformedLabel}

\* ------------------------------------------------------------------ state
VARIABLES
    mode,              \* "single" or "batch": sys.argv[1] == "--csv"
    recordings,        \* rows of the CSV (base_filename column)
    i,                 \* enumerate(recordings, 1)
    all_files,         \* process_batch's accumulator
    bpc,               \* position of the driver (process_batch or main)
    delays,            \* history: asyncio.sleep(3) calls of process_batch completed
    results,           \* history: each finished call, with the list it returned
    pc,                \* position inside download_zoom_recording
    base_filename,
    browser,           \* "none", "open", "closed" (browser.close()), "stopped"
    observer,          \* page.on("request", handle_request) done
    markers,           \* aria-labels of the page's share markers, document order
    video_requests,
    polls,             \* iterations of the capture wait completed
    window_empty,      \* history: the capture wait ended with nothing captured
    sharing_timeline,
    unique_requests,   \* ordered dict: sequence of [url, req]
    cookie_str,
    downloaded_files,
    n,                 \* position of the download loop in unique_requests
    result,            \* <<returncode>> of the last completed curl run
    files,             \* the value download_zoom_recording returned
    disk,              \* media files under output_dir: filename -> st_size
    timelines,         \* timeline files under output_dir: filename -> events
    transfers          \* history: the URLs curl was run on for the current recording

driver == <<mode, recordings, i, all_files, bpc, delays, results>>
locals == <<base_filename, browser, observer, markers, video_requests, polls, window_empty,
            sharing_timeline, unique_requests, cookie_str, downloaded_files, n,
            result, files, transfers>>
fsys == <<disk, timelines>>
vars == <<driver, pc, locals, fsys>>

\* ------------------------------------------------------------------ init
\* the caller takes the returned list; the callee's frame is gone
Returned ==
    /\ pc' = "idle"
    /\ base_filename' = ""
    /\ video_requests' = <<>>
    /\ polls' = 0
    /\ window_empty' = FALSE
    /\ sharing_timeline' = <<>>
    /\ unique_requests' = <<>>
    /\ cookie_str' = ""
    /\ downloaded_files' = <<>>
    /\ n' = 0
    /\ result' = <<>>
    /\ files' = <<>>
    /\ transfers' = <<>>
    /\ UNCHANGED <<browser, observer, markers>>

\* what a fresh call of download_zoom_recording starts from (lines 17-38)
StartRecording(name) ==
    /\ pc' = "launch"
    /\ base_filename' = name
    /\ browser' = "none"
    /\ observer' = FALSE
    /\ markers' = <<>>
    /\ video_requests' = <<>>
    /\ polls' = 0
    /\ window_empty' = FALSE
    /\ sharing_timeline' = <<>>
    /\ unique_requests' = <<>>
    /\ cookie_str' = ""
    /\ downloaded_files' = <<>>
    /\ n' = 0
    /\ result' = <<>>
    /\ files' = <<>>
    /\ transfers' = <<>>

InitLocals ==
    /\ pc = "idle"
    /\ base_filename = ""
    /\ browser = "none"
    /\ observer = FALSE
    /\ markers = <<>>
    /\ video_requests = <<>>
    /\ polls = 0
    /\ window_empty = FALSE
    /\ sharing_timeline = <<>>
    /\ unique_requests = <<>>
    /\ cookie_str = ""
    /\ downloaded_files = <<>>
    /\ n = 0
    /\ result = <<>>
    /\ files = <<>>
    /\ transfers = <<>>
    /\ timelines = <<>>

\* main(), lines 275-280: one recording named on the command line
Init ==
    /\ mode = "single"
    /\ recordings = <<"m1">>
    /\ i = 1
    /\ all_files = <<>>
    /\ bpc = "start"
    /\ delays = 0
    /\ results = <<>>
    /\ disk = <<>>
    /\ InitLocals

\* main(), lines 271-274, and process_batch, lines 235-241
InitBatch ==
    /\ mode = "batch"
    /\ recordings \in SeqsUpTo(BaseNames, MaxRecs)
    /\ i = 1
    /\ all_files = <<>>
    /\ bpc = "start"
    /\ delays = 0
    /\ results = <<>>
    /\ disk = <<>>
    /\ InitLocals

\* ------------------------------------------ download_zoom_recording steps
CaptureLimit == IF mode = "single" THEN MaxCaptured ELSE MaxBatchCaptured
PageRequests == IF mode = "single" THEN Requests ELSE BatchRequests

\* the awaits of lines 70-165 at which the event loop can run the callback
AwaitPoints ==
    {"init_script", "goto", "passcode", "fill", "click", "sleep", "evaluate",
     "cookies", "close_empty", "close"}

\* lines 57-65
handle_request ==
    /\ browser = "open"
    /\ observer
    /\ pc \in AwaitPoints
    /\ Len(video_requests) < CaptureLimit
    /\ \E request \in PageRequests :
          video_requests' =
              IF Retained(request.url)
              THEN Append(video_requests,
                          [url |-> request.url, headers |-> request.headers])
              ELSE video_requests
    /\ UNCHANGED <<driver, pc, markers, base_filename, browser, observer, polls, window_empty,
                   sharing_timeline, unique_requests, cookie_str, downloaded_files,
                   n, result, files, transfers, fsys>>

\* lines 40-54
Launch ==
    /\ pc = "launch"
    /\ browser' = "open"
    /\ pc' = "register"
    /\ UNCHANGED <<driver, markers, base_filename, observer, video_requests, polls,
                   window_empty, sharing_timeline, unique_requests, cookie_str,
                   downloaded_files, n, result, files, transfers, fsys>>

\* line 67
Register ==
    /\ pc = "register"
    /\ observer' = TRUE
    /\ pc' = "init_script"
    /\ UNCHANGED <<driver, markers, base_filename, browser, video_requests, polls,
                   window_empty, sharing_timeline, unique_requests, cookie_str,
                   downloaded_files, n, result, files, transfers, fsys>>

\* lines 70-79
InitScript ==
    /\ pc = "init_script"
    /\ pc' = "goto"
    /\ UNCHANGED <<driver, locals, fsys>>

\* lines 82-83: the page is loaded, with whatever share markers it has
Goto ==
    /\ pc = "goto"
    /\ markers' \in Doms
    /\ pc' = "passcode"
    /\ UNCHANGED <<driver, base_filename, browser, observer, video_requests, polls,
                   window_empty, sharing_timeline, unique_requests, cookie_str,
                   downloaded_files, n, result, files, transfers, fsys>>

\* lines 87-88: the password input appears, or wait_for_selector times out
Passcode ==
    /\ pc = "passcode"
    /\ pc' \in {"fill", "except"}
    /\ UNCHANGED <<driver, locals, fsys>>

\* line 89: page.fill returns or raises
Fill ==
    /\ pc = "fill"
    /\ pc' \in {"click", "except"}
    /\ UNCHANGED <<driver, locals, fsys>>

\* lines 92-95: the click returns, and the try block is left, or it raises
Click ==
    /\ pc = "click"
    /\ pc' \in {"poll", "except"}
    /\ UNCHANGED <<driver, locals, fsys>>

\* variant: the except clause re-raises
PasscodeExceptReraises ==
    /\ pc = "except"
    /\ pc' = "raised"
    /\ UNCHANGED <<driver, locals, fsys>>
\* lines 96-97: the except clause prints the error and drops it
PasscodeExcept ==
    /\ pc = "except"
    /\ pc' = "poll"
    /\ UNCHANGED <<driver, locals, fsys>>

\* variant: no break, the wait always runs its 30 sleeps
PollIgnoresCaptures ==
    /\ pc = "poll"
    /\ IF polls < MaxPolls
       THEN /\ pc' = "sleep"
            /\ UNCHANGED <<polls, window_empty>>
       ELSE /\ pc' = "evaluate"
            /\ polls' = 0
            /\ window_empty' = (video_requests = <<>>)
    /\ UNCHANGED <<driver, markers, base_filename, browser, observer, video_requests,
                   sharing_timeline, unique_requests, cookie_str, downloaded_files,
                   n, result, files, transfers, fsys>>
\* lines 101-103: one test of the capture wait
Poll ==
    /\ pc = "poll"
    /\ IF polls < MaxPolls /\ video_requests = <<>>
       THEN /\ pc' = "sleep"
            /\ UNCHANGED <<polls, window_empty>>
       ELSE /\ pc' = "evaluate"
            /\ polls' = 0
            /\ window_empty' = (video_requests = <<>>)
    /\ UNCHANGED <<driver, markers, base_filename, browser, observer, video_requests,
                   sharing_timeline, unique_requests, cookie_str, downloaded_files,
                   n, result, files, transfers, fsys>>

\* line 104
Sleep ==
    /\ pc = "sleep"
    /\ polls' = polls + 1
    /\ pc' = "poll"
    /\ UNCHANGED <<driver, markers, base_filename, browser, observer, video_requests,
                   window_empty, sharing_timeline, unique_requests, cookie_str,
                   downloaded_files, n, result, files, transfers, fsys>>

\* lines 106-135
Evaluate ==
    /\ pc = "evaluate"
    /\ sharing_timeline' = ParseTimeline(markers)
    /\ pc' = "save_timeline"
    /\ UNCHANGED <<driver, markers, base_filename, browser, observer, video_requests, polls,
                   window_empty, unique_requests, cookie_str, downloaded_files, n,
                   result, files, transfers, fsys>>

Write(fs, name, content) ==
    [f \in DOMAIN fs \cup {name} |-> IF f = name THEN content ELSE fs[f]]

\* variant: the file is written whatever the list holds
SaveTimelineAlways ==
    /\ pc = "save_timeline"
    /\ timelines' = Write(timelines, TimelineFile(base_filename), sharing_timeline)
    /\ pc' = "dedup"
    /\ UNCHANGED <<driver, locals, disk>>
\* lines 138-144
SaveTimeline ==
    /\ pc = "save_timeline"
    /\ timelines' =
          IF sharing_timeline # <<>>
          THEN Write(timelines, TimelineFile(base_filename), sharing_timeline)
          ELSE timelines
    /\ pc' = "dedup"
    /\ UNCHANGED <<driver, locals, disk>>

\* variant: the first captured request is not looked at
DeduplicateSkipsFirst ==
    /\ pc = "dedup"
    /\ unique_requests' =
          Dedup(IF video_requests = <<>> THEN <<>> ELSE Tail(video_requests), <<>>)
    /\ pc' = IF unique_requests' = <<>> THEN "close_empty" ELSE "cookies"
    /\ UNCHANGED <<driver, markers, base_filename, browser, observer, video_requests,
                   polls, window_empty, sharing_timeline, cookie_str, downloaded_files,
                   n, result, files, transfers, fsys>>
\* lines 147-156
Deduplicate ==
    /\ pc = "dedup"
    /\ unique_requests' = Dedup(video_requests, <<>>)
    /\ pc' = IF unique_requests' = <<>> THEN "close_empty" ELSE "cookies"
    /\ UNCHANGED <<driver, markers, base_filename, browser, observer, video_requests, polls,
                   window_empty, sharing_timeline, cookie_str, downloaded_files, n,
                   result, files, transfers, fsys>>

\* variant: the early return without browser.close()
CloseEmptyLeavesOpen ==
    /\ pc = "close_empty"
    /\ files' = <<>>
    /\ pc' = "returned"
    /\ UNCHANGED <<driver, markers, base_filename, browser, observer, video_requests, polls,
                   window_empty, sharing_timeline, unique_requests, cookie_str,
                   downloaded_files, n, result, transfers, fsys>>
\* lines 157-159
CloseEmpty ==
    /\ pc = "close_empty"
    /\ browser' = "closed"
    /\ markers' = <<>>
    /\ files' = <<>>
    /\ pc' = "returned"
    /\ UNCHANGED <<driver, base_filename, observer, video_requests, polls,
                   window_empty, sharing_timeline, unique_requests, cookie_str,
                   downloaded_files, n, result, transfers, fsys>>

\* lines 162-163
Cookies ==
    /\ pc = "cookies"
    /\ cookie_str' \in CookieStrings
    /\ pc' = "close"
    /\ UNCHANGED <<driver, markers, base_filename, browser, observer, video_requests, polls,
                   window_empty, sharing_timeline, unique_requests, downloaded_files,
                   n, result, files, transfers, fsys>>

\* variant: the download loop entered without browser.close()
CloseLeavesOpen ==
    /\ pc = "close"
    /\ downloaded_files' = <<>>
    /\ n' = 1
    /\ pc' = "loop"
    /\ UNCHANGED <<driver, markers, base_filename, browser, observer, video_requests, polls,
                   window_empty, sharing_timeline, unique_requests, cookie_str,
                   result, files, transfers, fsys>>
\* lines 165-170
Close ==
    /\ pc = "close"
    /\ browser' = "closed"
    /\ markers' = <<>>
    /\ downloaded_files' = <<>>
    /\ n' = 1
    /\ pc' = "loop"
    /\ UNCHANGED <<driver, base_filename, observer, video_requests, polls,
                   window_empty, sharing_timeline, unique_requests, cookie_str,
                   result, files, transfers, fsys>>

\* an error raised at lines 41-165 outside the try of lines 87-97: nothing in
\* download_zoom_recording handles it; leaving the `async with` of line 40
\* stops Playwright, and the browser with it
RaisePoints ==
    {"launch", "init_script", "goto", "evaluate", "save_timeline", "cookies",
     "close_empty", "close"}

Raise ==
    /\ pc \in RaisePoints
    /\ pc' = "raised"
    /\ browser' = IF browser = "open" THEN "stopped" ELSE browser
    /\ markers' = <<>>
    /\ UNCHANGED <<driver, base_filename, observer, video_requests, polls,
                   window_empty, sharing_timeline, unique_requests, cookie_str,
                   downloaded_files, n, result, files, transfers, fsys>>

\* ------------------------------------------------------- download loop
\* lines 171-184: the resource and the destination of the current iteration
CurUrl == unique_requests[n].url
CurFilename == Filename(base_filename, CurUrl)

\* lines 171, 225: next iteration, or the end of the loop and the return
LoopHead ==
    /\ pc = "loop"
    /\ IF n <= Len(unique_requests)
       THEN /\ pc' = "curl"
            /\ UNCHANGED files
       ELSE /\ pc' = "returned"
            /\ files' = downloaded_files
    /\ UNCHANGED <<driver, markers, base_filename, browser, observer, video_requests, polls,
                   window_empty, sharing_timeline, unique_requests, cookie_str,
                   downloaded_files, n, result, transfers, fsys>>

\* lines 187-206: subprocess.run completes
Curl ==
    /\ pc = "curl"
    /\ \E out \in CurlOutcomes :
          /\ result' = <<out.returncode>>
          /\ disk' = IF out.wrote THEN Write(disk, CurFilename, out.size) ELSE disk
    /\ transfers' = Append(transfers, CurUrl)
    /\ pc' = "validate"
    /\ UNCHANGED <<driver, markers, base_filename, browser, observer, video_requests, polls,
                   window_empty, sharing_timeline, unique_requests, cookie_str,
                   downloaded_files, n, files, timelines>>

\* variant: no try/except around the transfer
CurlRaisesAborts ==
    /\ pc = "curl"
    /\ transfers' = Append(transfers, CurUrl)
    /\ pc' = "raised"
    /\ UNCHANGED <<driver, markers, base_filename, browser, observer, video_requests, polls,
                   window_empty, sharing_timeline, unique_requests, cookie_str,
                   downloaded_files, n, result, files, fsys>>
\* lines 206, 222-223: subprocess.run raises; the except clause prints and
\* the loop goes on
CurlRaises ==
    /\ pc = "curl"
    /\ transfers' = Append(transfers, CurUrl)
    /\ n' = n + 1
    /\ pc' = "loop"
    /\ UNCHANGED <<driver, markers, base_filename, browser, observer, video_requests, polls,
                   window_empty, sharing_timeline, unique_requests, cookie_str,
                   downloaded_files, result, files, fsys>>

\* Path(filename).exists() and .stat().st_size, lines 210-212
Exists(filename) == filename \in DOMAIN disk
StSize(filename) == IF Exists(filename) THEN disk[filename] ELSE 0

\* lines 208-221
Validate ==
    /\ pc = "validate"
    /\ downloaded_files' =
          IF Validated(result[1], Exists(CurFilename), StSize(CurFilename))
          THEN Append(downloaded_files, CurFilename)
          ELSE downloaded_files
    /\ n' = n + 1
    /\ pc' = "loop"
    /\ UNCHANGED <<driver, markers, base_filename, browser, observer, video_requests, polls,
                   window_empty, sharing_timeline, unique_requests, cookie_str,
                   result, files, transfers, fsys>>

\* ---------------------------------------------------------------- drivers
\* main(), line 280
MainCall ==
    /\ mode = "single"
    /\ bpc = "start"
    /\ StartRecording(recordings[1])
    /\ bpc' = "await"
    /\ UNCHANGED <<mode, recordings, i, all_files, delays, results, fsys>>

\* main(), line 280: the call returns and main ends
MainReturn ==
    /\ mode = "single"
    /\ bpc = "await"
    /\ pc = "returned"
    /\ bpc' = "done"
    /\ results' = Append(results, [base_filename |-> base_filename, files |-> files])
    /\ Returned
    /\ UNCHANGED <<mode, recordings, i, all_files, delays, fsys>>

\* lines 242-246
BatchCall ==
    /\ mode = "batch"
    /\ bpc = "start"
    /\ i <= Len(recordings)
    /\ StartRecording(recordings[i])
    /\ bpc' = "await"
    /\ UNCHANGED <<mode, recordings, i, all_files, delays, results, fsys>>

\* variant: the delay is taken after every recording, the last one too
BatchExtendAlwaysSleeps ==
    /\ mode = "batch"
    /\ bpc = "await"
    /\ pc = "returned"
    /\ all_files' = Extend(all_files, files)
    /\ results' = Append(results, [base_filename |-> base_filename, files |-> files])
    /\ Returned
    /\ bpc' = "sleep"
    /\ UNCHANGED <<mode, recordings, i, delays, fsys>>
\* lines 247-250
BatchExtend ==
    /\ mode = "batch"
    /\ bpc = "await"
    /\ pc = "returned"
    /\ all_files' = Extend(all_files, files)
    /\ results' = Append(results, [base_filename |-> base_filename, files |-> files])
    /\ Returned
    /\ IF i < Len(recordings)
       THEN bpc' = "sleep" /\ UNCHANGED i
       ELSE bpc' = "start" /\ i' = i + 1
    /\ UNCHANGED <<mode, recordings, delays, fsys>>

\* lines 251-252
BatchSleep ==
    /\ mode = "batch"
    /\ bpc = "sleep"
    /\ delays' = delays + 1
    /\ i' = i + 1
    /\ bpc' = "start"
    /\ UNCHANGED <<mode, recordings, all_files, results, pc, locals, fsys>>

\* lines 254-257
BatchReturn ==
    /\ mode = "batch"
    /\ bpc = "start"
    /\ i > Len(recordings)
    /\ bpc' = "done"
    /\ UNCHANGED <<mode, recordings, i, all_files, delays, results, pc, locals, fsys>>

\* lines 244 and 280: nothing around the call handles an error it raises
Propagate ==
    /\ bpc = "await"
    /\ pc = "raised"
    /\ bpc' = "raised"
    /\ UNCHANGED <<mode, recordings, i, all_files, delays, results, pc, locals, fsys>>

\* ---------------------------------------------------------- specifications
Recording ==
    \/ handle_request
    \/ Launch
    \/ Register
    \/ InitScript
    \/ Goto
    \/ Passcode
    \/ Fill
    \/ Click
    \/ PasscodeExcept
    \/ Poll
    \/ Sleep
    \/ Evaluate
    \/ SaveTimeline
    \/ Deduplicate
    \/ CloseEmpty
    \/ Cookies
    \/ Close
    \/ Raise
    \/ LoopHead
    \/ Curl
    \/ CurlRaises
    \/ Validate
    \/ Propagate

Next == MainCall \/ MainReturn \/ Recording

NextBatch == BatchCall \/ BatchExtend \/ BatchSleep \/ BatchReturn \/ Recording

Spec == Init /\ [][Next]_vars

SpecBatch == InitBatch /\ [][NextBatch]_vars

\* the event loop resumes the coroutine: the test of line 102 is run when it is
\* reached, and the timer of asyncio.sleep(1) expires
SpecWait == Spec /\ WF_vars(Poll) /\ WF_vars(Sleep)

\* lines 147-225 on one captured request: the session is at line 146 with a
\* single retained request whose URL is any of ClassifyUrls
InitClassify ==
    /\ mode = "single"
    /\ recordings = <<"m1">>
    /\ i = 1
    /\ all_files = <<>>
    /\ bpc = "await"
    /\ delays = 0
    /\ results = <<>>
    /\ disk = <<>>
    /\ timelines = <<>>
    /\ pc = "dedup"
    /\ base_filename = "m1"
    /\ browser = "open"
    /\ observer = TRUE
    /\ markers = <<>>
    /\ video_requests \in {<<[url |-> u, headers |-> "h1"]>> : u \in ClassifyUrls}
    /\ polls = 0
    /\ window_empty = FALSE
    /\ sharing_timeline = <<>>
    /\ unique_requests = <<>>
    /\ cookie_str = ""
    /\ downloaded_files = <<>>
    /\ n = 0
    /\ result = <<>>
    /\ files = <<>>
    /\ transfers = <<>>

NextClassify ==
    \/ Deduplicate
    \/ CloseEmpty
    \/ Cookies
    \/ Close
    \/ LoopHead
    \/ Curl
    \/ CurlRaises
    \/ Validate

SpecClassify == InitClassify /\ [][NextClassify]_vars

\* lines 106-144 on one page: the session is at line 106 and the page has up
\* to MaxMarkers share markers with any of TimelineLabels
InitTimeline ==
    /\ mode = "single"
    /\ recordings = <<"m1">>
    /\ i = 1
    /\ all_files = <<>>
    /\ bpc = "await"
    /\ delays = 0
    /\ results = <<>>
    /\ disk = <<>>
    /\ timelines = <<>>
    /\ pc = "evaluate"
    /\ base_filename = "m1"
    /\ browser = "open"
    /\ observer = TRUE
    /\ markers \in SeqsUpTo(TimelineLabels, MaxMarkers)
    /\ video_requests = <<>>
    /\ polls = 0
    /\ window_empty = TRUE
    /\ sharing_timeline = <<>>
    /\ unique_requests = <<>>
    /\ cookie_str = ""
    /\ downloaded_files = <<>>
    /\ n = 0
    /\ result = <<>>
    /\ files = <<>>
    /\ transfers = <<>>

NextTimeline == Evaluate \/ SaveTimeline

SpecTimeline == InitTimeline /\ [][NextTimeline]_vars

\* ================================================================ claims
HasMarker(url) ==
    (\E j \in 1..Len(url) : url[j] = "_avo_") \/ (\E j \in 1..Len(url) : url[j] = "_as_")

Range(q) == {q[j] : j \in 1..Len(q)}

NoDup(q) == \A j, k \in 1..Len(q) : j # k => q[j] # q[k]

InFlight == pc \notin {"idle"}

\* ---------------------------------------------------------------------- C1
\* C1: the validation step appends the destination path to downloaded_files
\* exactly when the exit status is 0, the file exists and its size is more
\* than 0.1 MiB (10 * bytes > 1048576); otherwise the list is left as it was.
C1_AppendedIffValid ==
    [][pc = "validate" =>
        LET ok == /\ result[1] = 0
                  /\ CurFilename \in DOMAIN disk
                  /\ 10 * disk[CurFilename] > 1048576
        IN  /\ ok => downloaded_files' = Append(downloaded_files, CurFilename)
            /\ ~ok => downloaded_files' = downloaded_files]_vars

\* a first file of 104858 bytes was accepted, then a second file of 104857
\* bytes (0.1 MiB rounded down) was refused although curl exited 0
C1_Witness ==
    /\ pc = "loop"
    /\ n = 3
    /\ result = <<0>>
    /\ Len(unique_requests) >= 2
    /\ Filename(base_filename, unique_requests[1].url) \in DOMAIN disk
    /\ Filename(base_filename, unique_requests[2].url) \in DOMAIN disk
    /\ disk[Filename(base_filename, unique_requests[1].url)] = 104858
    /\ disk[Filename(base_filename, unique_requests[2].url)] = 104857
    /\ downloaded_files = <<Filename(base_filename, unique_requests[1].url)>>

\* ---------------------------------------------------------------------- C2
FirstIndex(reqs, url) == Min({j \in 1..Len(reqs) : reqs[j].url = url})
LastIndex(reqs, url) ==
    CHOOSE j \in 1..Len(reqs) :
        /\ reqs[j].url = url
        /\ \A k \in 1..Len(reqs) : reqs[k].url = url => k <= j

DedupPost(reqs, d) ==
    /\ {d[j].url : j \in 1..Len(d)} = {r.url : r \in {x \in Range(reqs) : HasMarker(x.url)}}
    /\ \A j, k \in 1..Len(d) : j # k => d[j].url # d[k].url
    /\ \A j \in 1..Len(d) : d[j].req = reqs[LastIndex(reqs, d[j].url)]
    /\ \A j, k \in 1..Len(d) :
          j < k => FirstIndex(reqs, d[j].url) < FirstIndex(reqs, d[k].url)

C3_UnmarkedNeverDownloaded ==
    /\ \A u \in Range(transfers) : HasMarker(u)
    /\ pc \in {"curl", "validate"} => HasMarker(CurUrl)
    /\ \A r \in Range(video_requests) :
          ~HasMarker(r.url) =>
              /\ r.url \notin Range(transfers)
              /\ Filename(base_filename, r.url) \notin Range(downloaded_files)
              /\ Filename(base_filename, r.url) \notin Range(files)

\* an unmarked request was captured next to a marked one whose file was
\* downloaded and returned
C3_Witness ==
    /\ pc = "returned"
    /\ \E r \in Range(video_requests) : ~HasMarker(r.url)
    /\ files # <<>>
    /\ Len(transfers) = 1

KeySeq(d) == [j \in 1..Len(d) |-> d[j].url]

\* C5: curl is run once on each deduplicated resource, in the order of the
\* mapping, whatever the earlier runs did; the loop is never left by an
\* error, so an error leaves the call only before the first transfer.
C5_OneAttemptEach ==
    /\ pc \in {"loop", "curl"} => transfers = SubSeq(KeySeq(unique_requests), 1, n - 1)
    /\ pc = "validate" => transfers = SubSeq(KeySeq(unique_requests), 1, n)
    /\ pc = "returned" => transfers = KeySeq(unique_requests)
    /\ pc = "raised" => transfers = <<>>

\* three resources: the first transfer left no file at all, and the second
\* and third were still attempted, the third with success
C5_Witness ==
    /\ pc = "returned"
    /\ Len(unique_requests) = 3
    /\ Len(transfers) = 3
    /\ Filename(base_filename, unique_requests[1].url) \notin DOMAIN disk
    /\ Filename(base_filename, unique_requests[2].url) \in DOMAIN disk
    /\ files = <<Filename(base_filename, unique_requests[3].url)>>

\* ---------------------------------------------------------------------- C6
\* C6: while curl runs or its result is examined, and once any transfer has
\* been made, the browser is closed and the observer can no longer append.
C6_TransferAfterClose ==
    (pc \in {"curl", "validate"} \/ (InFlight /\ transfers # <<>>)) =>
        /\ browser = "closed"
        /\ ~ENABLED handle_request

\* a transfer is about to run for a session that captured two requests
C6_Witness ==
    /\ pc = "curl"
    /\ browser = "closed"
    /\ Len(video_requests) = 2
    /\ transfers = <<>>

\* ---------------------------------------------------------------------- C7
\* C7: whenever download_zoom_recording has returned, browser.close() has
\* been completed.
C7_ClosedBeforeReturn == pc = "returned" => browser = "closed"

\* the early return: only a request without marker was captured
C7_Witness ==
    /\ pc = "returned"
    /\ browser = "closed"
    /\ video_requests # <<>>
    /\ unique_requests = <<>>
    /\ transfers = <<>>

\* ---------------------------------------------------------------------- C8
RECURSIVE Flatten(_)
Flatten(rs) == IF rs = <<>> THEN <<>> ELSE Head(rs).files \o Flatten(Tail(rs))

\* C8: process_batch's accumulator is always the concatenation of the lists
\* returned so far, the calls made so far are the first rows in input order,
\* and when process_batch returns every row has been processed once, also
\* after a row that returned no file.
C8_BatchConcatenation ==
    /\ all_files = Flatten(results)
    /\ Len(results) <= Len(recordings)
    /\ \A j \in 1..Len(results) : results[j].base_filename = recordings[j]
    /\ bpc = "done" => Len(results) = Len(recordings)
    /\ (bpc \in {"sleep", "start"} /\ i <= Len(recordings)) =>
          Len(results) = (IF bpc = "sleep" THEN i ELSE i - 1)

\* three rows, the second returned no file, the first and third one each
C8_Witness ==
    /\ bpc = "done"
    /\ Len(recordings) = 3
    /\ Len(results) = 3
    /\ results[1].files # <<>>
    /\ results[2].files = <<>>
    /\ results[3].files # <<>>
    /\ all_files = results[1].files \o results[3].files

\* ---------------------------------------------------------------------- C9
\* C9 as stated: an error raised while one recording is processed does not
\* keep the later rows of the batch from being processed.
C9_Claim == ~(bpc = "raised" /\ i < Len(recordings))

\* --------------------------------------------------------------------- C10
\* C10 as stated: distinct deduplicated resources of one recording have
\* distinct destination paths, and the returned list holds no path twice.
C10_Claim ==
    /\ \A j, k \in 1..Len(unique_requests) :
          j # k => Filename(base_filename, unique_requests[j].url)
                   # Filename(base_filename, unique_requests[k].url)
    /\ NoDup(downloaded_files)
    /\ NoDup(files)

\* ---------------------------------------------------------------- C11
IsResolutionToken(tok) == tok \in {"1280x720", "1920x1080"}

\* r is a <digits>x<digits> token standing between the marker and ".mp4"
ResolutionAfter(url, marker, r) ==
    \E j \in 1..Len(url) :
        /\ j + 2 <= Len(url)
        /\ url[j] = marker
        /\ url[j + 1] = r
        /\ IsResolutionToken(r)
        /\ url[j + 2] = ".mp4"

Named(name, base, kind, url, marker) ==
    /\ Len(name) = 4
    /\ name[1] = base
    /\ name[2] = kind
    /\ name[4] = ".mp4"
    /\ IF \E r \in Range(url) : ResolutionAfter(url, marker, r)
       THEN ResolutionAfter(url, marker, name[3])
       ELSE name[3] = "unknown"

\* C11: the destination of the resource being transferred is
\* {base_filename}_face_{resolution}.mp4 when its URL contains _avo_, and
\* otherwise {base_filename}_screen_{resolution}.mp4 when it contains _as_;
\* the resolution is the <digits>x<digits> token between the marker and .mp4,
\* and "unknown" when no such token follows the marker.
C11_ClassifiedAndNamed ==
    pc \in {"curl", "validate"} =>
        /\ (\E j \in 1..Len(CurUrl) : CurUrl[j] = "_avo_") =>
              Named(CurFilename, base_filename, "_face_", CurUrl, "_avo_")
        /\ (/\ \A j \in 1..Len(CurUrl) : CurUrl[j] # "_avo_"
            /\ \E j \in 1..Len(CurUrl) : CurUrl[j] = "_as_") =>
              Named(CurFilename, base_filename, "_screen_", CurUrl, "_as_")
        /\ pc = "validate" =>
              \A f \in DOMAIN disk : f = CurFilename

\* a URL with both markers, the resolution after _avo_, has been transferred
\* to the face file
C11_Witness ==
    /\ pc = "validate"
    /\ CurUrl = <<"ssrweb.zoom.us", "_as_", "_avo_", "1280x720", ".mp4">>
    /\ CurFilename = <<"m1", "_face_", "1280x720", ".mp4">>
    /\ CurFilename \in DOMAIN disk

\* ---------------------------------------------------------------- C12
\* one step of the capture wait
WaitStep ==
    /\ polls \in 0..30
    /\ pc = "poll" =>
          IF video_requests # <<>> \/ polls = 30
          THEN /\ pc' = "evaluate"
               /\ browser' = "open"
               /\ video_requests' = video_requests
          ELSE /\ pc' = "sleep"
               /\ polls' = polls
    /\ pc = "sleep" =>
          /\ polls < 30
          /\ \/ pc' = "sleep" /\ polls' = polls
             \/ pc' = "poll" /\ polls' = polls + 1

\* C12: the capture wait tests the list at most 30 times, sleeping once after
\* each failed test; it ends at the first test that finds a captured request,
\* and after the 30th sleep it goes on to the timeline extraction with the
\* browser still open and the list as it is (possibly empty); a wait that has
\* begun always reaches the timeline extraction.
C12_WaitBoundedAndEnds ==
    /\ [][WaitStep]_vars
    /\ (pc = "poll" ~> pc = "evaluate")

\* the 30 sleeps are over and nothing was captured: the wait ends here
C12_Witness ==
    /\ pc = "evaluate"
    /\ window_empty
    /\ video_requests = <<>>
    /\ browser = "open"

\* ---------------------------------------------------------------- C13
OnStreamingHost(url) == \E j \in 1..Len(url) : url[j] = "ssrweb.zoom.us"
EndsWithMp4(url) == url # <<>> /\ url[Len(url)] = ".mp4"
ContainsMp4(url) == \E j \in 1..Len(url) : url[j] = ".mp4"

\* the observer, handed request q now, appends it to the capture list
Retains(q) == ENABLED (handle_request /\ video_requests' = Append(video_requests, q))

\* the observer is registered by the time page.goto is called
RegisteredBeforeNavigation ==
    /\ pc = "goto" => observer
    /\ ~observer => pc \in {"idle", "launch", "register", "raised"}

\* the claim as stated: retained iff on the streaming host and ending with .mp4
C13_Original ==
    /\ RegisteredBeforeNavigation
    /\ ENABLED handle_request =>
          \A q \in PageRequests :
              Retains(q) <=> (OnStreamingHost(q.url) /\ EndsWithMp4(q.url))
    /\ \A j \in 1..Len(video_requests) :
          OnStreamingHost(video_requests[j].url) /\ EndsWithMp4(video_requests[j].url)

\* C13 (amended): the observer is registered before the navigation starts, and
\* it retains a request iff its URL contains the streaming host and contains
\* ".mp4" anywhere (a query string may follow the extension).
C13_RetainedIffHostAndMp4 ==
    /\ RegisteredBeforeNavigation
    /\ ENABLED handle_request =>
          \A q \in PageRequests :
              Retains(q) <=> (OnStreamingHost(q.url) /\ ContainsMp4(q.url))
    /\ \A j \in 1..Len(video_requests) :
          OnStreamingHost(video_requests[j].url) /\ ContainsMp4(video_requests[j].url)

\* during the navigation a request whose URL goes on after ".mp4" was retained,
\* and the observer still rejects the playlist and the other host
C13_Witness ==
    /\ pc = "goto"
    /\ observer
    /\ \E j \in 1..Len(video_requests) : ~EndsWithMp4(video_requests[j].url)
    /\ ENABLED handle_request
    /\ \E q \in PageRequests : OnStreamingHost(q.url) /\ ~Retains(q)
    /\ \E q \in PageRequests : ContainsMp4(q.url) /\ ~Retains(q)

\* ---------------------------------------------------------------- C14
PasscodeSteps == {"passcode", "fill", "click", "except"}

PasscodeStep ==
    pc \in PasscodeSteps =>
        /\ pc' \in PasscodeSteps \cup {"poll"}
        /\ pc = "except" => pc' = "poll"
        /\ browser' = "open"
        /\ pc' = "poll" =>
              /\ polls' = 0
              /\ UNCHANGED <<driver, locals, fsys>>

\* C14: the passcode entry is never fatal: a step of the passcode entry leads
\* to the next step, to the except clause or to the capture wait, never out of
\* the call; the except clause leads to the capture wait; and the capture wait
\* is entered with the browser open, its counter at 0 and every other variable
\* as it was, whether the try block was left normally or through the except
\* clause.
C14_PasscodeNeverFatal == [][PasscodeStep]_vars

\* the password input did not appear and the except clause is about to print
C14_Witness ==
    /\ pc = "except"
    /\ browser = "open"
    /\ video_requests = <<>>
    /\ ENABLED PasscodeExcept

\* ---------------------------------------------------------------- C15
\* "Sharing (Started|Stopped),<H> hours <M> minutes <S> seconds"
WellFormed(label) ==
    /\ label.text \in {"Sharing Started", "Sharing Stopped"}
    /\ label.sep = ","
    /\ label.units = <<" hours ", " minutes ", " seconds">>

\* positions of the well-formed labels, and the k-th of them in document order
WellFormedAt == {j \in 1..Len(markers) : WellFormed(markers[j])}
NthWellFormed(k) ==
    CHOOSE j \in WellFormedAt : Cardinality({x \in WellFormedAt : x < j}) = k - 1

RECURSIVE DigitsValue(_)
DigitsValue(d) ==
    IF d = <<>> THEN 0 ELSE 10 * DigitsValue(SubSeq(d, 1, Len(d) - 1)) + d[Len(d)]

\* d is val written in decimal, with a leading 0 when val has one digit
ZeroPadded(d, val) ==
    /\ Len(d) >= 2
    /\ \A j \in 1..Len(d) : d[j] \in 0..9
    /\ DigitsValue(d) = val
    /\ val < 100 => Len(d) = 2

\* event ev is what label yields, its action apart
EventOf(ev, label) ==
    /\ ev.seconds = label.h * 3600 + label.m * 60 + label.s
    /\ Len(ev.time) = 3
    /\ ZeroPadded(ev.time[1], label.h)
    /\ ZeroPadded(ev.time[2], label.m)
    /\ ZeroPadded(ev.time[3], label.s)

\* one event per well-formed label, in document order
EventsInDocumentOrder ==
    /\ Len(sharing_timeline) = Cardinality(WellFormedAt)
    /\ \A k \in 1..Len(sharing_timeline) :
          EventOf(sharing_timeline[k], markers[NthWellFormed(k)])

AfterTimeline ==
    {"dedup", "cookies", "close_empty", "close", "loop", "curl", "validate", "returned"}

SidecarWritten == <<base_filename, "_timeline.json">> \in DOMAIN timelines

\* C16: the timeline is extracted, and its file written, while the browser is
\* open; once past that point, on every path, the events are those of the
\* page's markers and {base_filename}_timeline.json exists iff the extracted
\* sequence is non-empty, and then holds that sequence, whatever was captured
\* and whatever the transfers did.
C16_TimelineBeforeClose ==
    /\ pc \in {"evaluate", "save_timeline"} => browser = "open"
    /\ pc \in AfterTimeline =>
          /\ SidecarWritten <=> sharing_timeline # <<>>
          /\ SidecarWritten =>
                timelines[<<base_filename, "_timeline.json">>] = sharing_timeline
          /\ browser = "open" => Len(sharing_timeline) = Cardinality(WellFormedAt)

\* every transfer failed and the call returns nothing, the sidecar is there
C16_Witness ==
    /\ pc = "returned"
    /\ transfers # <<>>
    /\ files = <<>>
    /\ sharing_timeline # <<>>
    /\ SidecarWritten

\* ---------------------------------------------------------------- C17
AfterDedup == {"cookies", "close_empty", "close", "loop", "curl", "validate", "returned"}

MarkedCaptured == {video_requests[j].url : j \in {k \in 1..Len(video_requests) : HasMarker(video_requests[k].url)}}

DedupStep ==
    /\ pc = "dedup" =>
          /\ browser = "open"
          /\ browser' = "open"
          /\ video_requests' = video_requests
          /\ Keys(unique_requests') = MarkedCaptured
    /\ pc \in AfterDedup => unique_requests' = unique_requests \/ pc' = "idle"
    /\ (browser = "open" /\ browser' = "closed") => pc \in {"close_empty", "close"}

C18_OneInFlightDelayBetween ==
    /\ pc # "idle" => bpc \in {"await", "raised"}
    /\ browser = "open" => bpc = "await" /\ Len(results) = i - 1
    /\ bpc = "await" => Len(results) = i - 1 /\ delays = i - 1
    /\ bpc = "sleep" => pc = "idle" /\ i < Len(recordings) /\ delays = i - 1
    /\ bpc = "done" =>
          /\ Len(results) = Len(recordings)
          /\ delays = IF recordings = <<>> THEN 0 ELSE Len(recordings) - 1

\* a batch of three rows is over: three calls returned, two delays taken
C18_Witness ==
    /\ bpc = "done"
    /\ Len(recordings) = 3
    /\ Len(results) = 3
    /\ delays = 2

\* ---------------------------------------------------------------- C19
IsUnknownFile(f) == Len(f) = 3 /\ f[2] = "_unknown"

NoResolutionToken(url) ==
    \A j \in 1..Len(url) :
        (url[j] \in {"_avo_", "_as_"} /\ j + 2 <= Len(url)) =>
            ~(IsResolutionToken(url[j + 1]) /\ url[j + 2] = ".mp4")

\* C19: no file {base_filename}_unknown.mp4 is written or returned: every
\* entry of the deduplicated set has a marker in its URL, the resource being
\* transferred goes to a face or a screen file, and to
\* {base}_face_unknown.mp4 or {base}_screen_unknown.mp4 when its URL has no
\* resolution token.
C19_NeverUnknownFile ==
    /\ \A f \in DOMAIN disk : ~IsUnknownFile(f)
    /\ \A j \in 1..Len(downloaded_files) : ~IsUnknownFile(downloaded_files[j])
    /\ \A j \in 1..Len(files) : ~IsUnknownFile(files[j])
    /\ \A j \in 1..Len(unique_requests) : HasMarker(unique_requests[j].url)
    /\ pc \in {"curl", "validate"} =>
          /\ CurFilename # <<base_filename, "_unknown", ".mp4">>
          /\ CurFilename[2] \in {"_face_", "_screen_"}
          /\ NoResolutionToken(CurUrl) =>
                CurFilename \in {<<base_filename, "_face_", "unknown", ".mp4">>,
                                 <<base_filename, "_screen_", "unknown", ".mp4">>}

\* a screen URL without resolution token has been transferred to
\* m1_screen_unknown.mp4
C19_Witness ==
    /\ pc = "validate"
    /\ CurUrl = <<"ssrweb.zoom.us", "_as_", ".mp4">>
    /\ <<"m1", "_screen_", "unknown", ".mp4">> \in DOMAIN disk

====
